---- MODULE Spec2Model ----
(***************************************************************************)
(* Model of the chat gateway in src/main.rs: the startup sequence of       *)
(* main, the listener task start_server, and the request handler           *)
(* openai_handler with its helpers get_role and default_api_key.           *)
(*                                                                         *)
(* Option<T> is modelled as a sequence of length at most one               *)
(* (None == <<>>, Some(v) == <<v>>), Result<T,E> as a record with a tag.   *)
(***************************************************************************)
EXTENDS Integers, Sequences, FiniteSets, TLC

VARIABLES
    argsKey,    \* Args.api_key : Option<String>, fixed by Args::parse
    mainPc,     \* position of main
    shutdown,   \* result of signal::ctrl_c().await ("" while not returned)
    API_KEY,    \* the static OnceCell<String>
    serverPc,   \* position of the spawned listener task
    pc,         \* per request: "idle", "awaiting" (client.chat().create), "done"
    body,       \* per request: the JSON body received (Option)
    cellRead,   \* per request: what API_KEY.get() returned, if it was called
    built,      \* per request: result of CreateChatCompletionRequestArgs::build
    sent,       \* per request: the upstream call issued (Option)
    calls,      \* per request: number of upstream calls issued
    resp,       \* per request: result of the upstream call (Option)
    envelope    \* per request: the Json value returned (Option)

vars == <<argsKey, mainPc, shutdown, API_KEY, serverPc,
          pc, body, cellRead, built, sent, calls, resp, envelope>>

procVars == <<argsKey, mainPc, shutdown, API_KEY, serverPc>>
reqVars == <<pc, body, cellRead, built, sent, calls, resp, envelope>>

(* ------------------------------ bounds --------------------------------- *)
NumReqs == 2
MaxContents == 2
MaxChoices == 2

Reqs == 1..NumReqs

(* --------------------------- value helpers ----------------------------- *)
None == <<>>
Some(v) == <<v>>
Ok(v) == [tag |-> "Ok", val |-> v, err |-> ""]
Err(e) == [tag |-> "Err", val |-> <<>>, err |-> e]

SeqsUpTo(S, n) == UNION {[1..k -> S] : k \in 0..n}

(* ------------------------------ inputs --------------------------------- *)
CliKeys == {"sk-cli"}
ReqKeys == {"", "sk-req"}
Roles == {"user", "assistant", "system", "moderator", "", "Assistant"}
Texts == {"hello", "hi"}
TokenLimits == {50, 1024}
ReplyTexts == {"hi there", "other"}

Content == [role : Roles, content : Texts]

\* JSON bodies that deserialize into UserInput (api_key may be omitted).
AllBodies ==
    [api_key : {None} \cup {Some(k) : k \in ReqKeys},
     max_tokens : TokenLimits,
     contents : SeqsUpTo(Content, MaxContents)]

\* The bodies used when several requests are in flight together.
SampleBodies ==
    [api_key : {None} \cup {Some(k) : k \in ReqKeys},
     max_tokens : {50},
     contents : {<<[role |-> "user", content |-> "hello"]>>,
                 <<[role |-> "moderator", content |-> "hello"],
                   [role |-> "assistant", content |-> "hi"]>>}]

BuildErrors == {"InvalidArgument"}
UpstreamErrors == {"Reqwest", "ApiError"}

\* A chat response is its list of choices, each with message.content : Option.
Choice == {None} \cup {Some(t) : t \in ReplyTexts}
AllResults ==
    {Err(e) : e \in UpstreamErrors} \cup {Ok(c) : c \in SeqsUpTo(Choice, MaxChoices)}
SampleResults ==
    {Err("Reqwest"), Ok(<<>>), Ok(<<None>>), Ok(<<Some("hi there"), Some("other")>>)}
BuildOutcomes == {Ok("request")} \cup {Err(e) : e \in BuildErrors}

(* --------------------------- pure functions ---------------------------- *)
default_api_key == ""

\* serde: #[serde(default = "default_api_key")] on api_key.
Deserialize(raw) ==
    [api_key |-> IF raw.api_key = None THEN default_api_key ELSE raw.api_key[1],
     max_tokens |-> raw.max_tokens,
     contents |-> raw.contents]

\* Mutant: the role is lower-cased before it is matched.
get_role_Lowercased(role) ==
    CASE role \in {"user", "User"} -> "Role::User"
      [] role \in {"assistant", "Assistant"} -> "Role::Assistant"
      [] role \in {"system", "System"} -> "Role::System"
      [] OTHER -> "Role::User"

get_role(role) ==
    CASE role = "user" -> "Role::User"
      [] role = "assistant" -> "Role::Assistant"
      [] role = "system" -> "Role::System"
      [] OTHER -> "Role::User"

\* The for loop pushing one ChatCompletionRequestMessage per content. Each
\* message is built with its role and its content set, so its build().unwrap()
\* returns the message.
RECURSIVE PushMessages(_, _)
PushMessages(contents, request_messages) ==
    IF contents = <<>> THEN request_messages
    ELSE PushMessages(Tail(contents),
                      Append(request_messages,
                             [role |-> get_role(Head(contents).role),
                              content |-> Head(contents).content]))

BuildMessages(contents) == PushMessages(contents, <<>>)

\* OnceCell::get_or_init: the first initialisation wins.
get_or_init(cell, v) == IF cell = None THEN Some(v) ELSE cell

\* Mutant: an unset cell falls through with the empty key.
ResolveApiKey_EmptyFallsThrough(input_key, cell) ==
    IF input_key = ""
    THEN [consulted |-> TRUE, key |-> IF cell = None THEN Some("") ELSE cell]
    ELSE [consulted |-> FALSE, key |-> Some(input_key)]

\* Mutant: the process-wide cell is preferred to the request's key.
ResolveApiKey_CellFirst(input_key, cell) ==
    IF input_key = "" \/ cell /= None
    THEN [consulted |-> TRUE, key |-> cell]
    ELSE [consulted |-> FALSE, key |-> Some(input_key)]

\* The credential chosen for a request; key = None is the early return.
ResolveApiKey(input_key, cell) ==
    IF input_key = ""
    THEN [consulted |-> TRUE, key |-> cell]
    ELSE [consulted |-> FALSE, key |-> Some(input_key)]

\* format!("{}", err): the Display text of an error, which differs from the
\* error value itself.
Display(err) ==
    CASE err = "InvalidArgument" -> "invalid args: max_tokens"
      [] err = "Reqwest" -> "http error: connection refused"
      [] err = "ApiError" -> "invalid_request_error: Incorrect API key provided"
      [] OTHER -> "error"

ErrorEnvelope(message) == [message |-> message, code |-> 500]

\* The upstream call: the client's credential and the request it carries.
UpstreamCall(api_key, max_tokens, request_messages) ==
    [api_key |-> api_key,
     model |-> "gpt-3.5-turbo",
     max_tokens |-> max_tokens,
     messages |-> request_messages]

\* Mutant: the last choice is relayed instead of the first.
TranslateResponse_LastChoice(result) ==
    IF result.tag = "Err" THEN ErrorEnvelope(Display(result.err))
    ELSE IF result.val = <<>> THEN ErrorEnvelope("no choices")
    ELSE IF result.val[Len(result.val)] = None THEN ErrorEnvelope("no content")
    ELSE [message |-> result.val[Len(result.val)][1], code |-> 200]

\* Mutant: an absent content is relayed as an empty text.
TranslateResponse_EmptyContentOk(result) ==
    IF result.tag = "Err" THEN ErrorEnvelope(Display(result.err))
    ELSE IF result.val = <<>> THEN ErrorEnvelope("no choices")
    ELSE IF result.val[1] = None THEN [message |-> "", code |-> 200]
    ELSE [message |-> result.val[1][1], code |-> 200]

\* What the handler returns once client.chat().create(request).await is back.
TranslateResponse(result) ==
    IF result.tag = "Err" THEN ErrorEnvelope(Display(result.err))
    ELSE IF result.val = <<>> THEN ErrorEnvelope("no choices")
    ELSE IF result.val[1] = None THEN ErrorEnvelope("no content")
    ELSE [message |-> result.val[1][1], code |-> 200]

(* ------------------------------- Init ---------------------------------- *)
IdleRequests ==
    /\ pc = [r \in Reqs |-> "idle"]
    /\ body = [r \in Reqs |-> None]
    /\ cellRead = [r \in Reqs |-> None]
    /\ built = [r \in Reqs |-> None]
    /\ sent = [r \in Reqs |-> None]
    /\ calls = [r \in Reqs |-> 0]
    /\ resp = [r \in Reqs |-> None]
    /\ envelope = [r \in Reqs |-> None]

Init ==
    /\ argsKey \in {None} \cup {Some(k) : k \in CliKeys}
    /\ mainPc = "init_key"
    /\ shutdown = ""
    /\ API_KEY = None
    /\ serverPc = "not_spawned"
    /\ IdleRequests

Running == mainPc /= "exited"

\* Mutant: the upstream call blocks the runtime, so no sibling task runs.
Polled_Blocking(r) == Running /\ \A q \in Reqs \ {r} : pc[q] /= "awaiting"

\* A request's task runs whenever the runtime runs: the await of the upstream
\* call suspends that task alone.
Polled(r) == Running

(* ------------------------------- main ---------------------------------- *)
\* Mutant: the future of get_or_init is never awaited, so the cell stays unset.
MainInitKey_NotAwaited ==
    /\ mainPc = "init_key"
    /\ mainPc' = "spawn"
    /\ UNCHANGED <<argsKey, shutdown, API_KEY, serverPc, reqVars>>

MainInitKey ==
    /\ mainPc = "init_key"
    /\ API_KEY' = IF argsKey = None THEN API_KEY ELSE get_or_init(API_KEY, argsKey[1])
    /\ mainPc' = "spawn"
    /\ UNCHANGED <<argsKey, shutdown, serverPc, reqVars>>

MainSpawn ==
    /\ mainPc = "spawn"
    /\ serverPc' = "binding"
    /\ mainPc' = "wait_signal"
    /\ UNCHANGED <<argsKey, shutdown, API_KEY, reqVars>>

\* signal::ctrl_c().await returns Ok(()) or Err; main returns either way and
\* the runtime drops every task.
MainCtrlC(outcome) ==
    /\ mainPc = "wait_signal"
    /\ shutdown' = outcome
    /\ mainPc' = "exited"
    /\ UNCHANGED <<argsKey, API_KEY, serverPc, reqVars>>

(* --------------------------- listener task ----------------------------- *)
\* Mutant: a bind failure ends the process.
ServerBind_Fatal(bound) ==
    /\ Running
    /\ serverPc = "binding"
    /\ serverPc' = IF bound THEN "serving" ELSE "bind_panicked"
    /\ mainPc' = IF bound THEN mainPc ELSE "exited"
    /\ UNCHANGED <<argsKey, shutdown, API_KEY, reqVars>>

\* try_bind: Ok, the task serves; Err, start_server returns Err and the
\* unwrap() in the spawned task panics.
ServerBind(bound) ==
    /\ Running
    /\ serverPc = "binding"
    /\ serverPc' = IF bound THEN "serving" ELSE "bind_panicked"
    /\ UNCHANGED <<argsKey, mainPc, shutdown, API_KEY, reqVars>>

\* serve(...).await? returning an error: the same unwrap() panics.
ServerServeError ==
    /\ Running
    /\ serverPc = "serving"
    /\ serverPc' = "serve_panicked"
    /\ UNCHANGED <<argsKey, mainPc, shutdown, API_KEY, reqVars>>

(* ------------------------------ handler -------------------------------- *)
\* openai_handler from its entry to the await of the upstream call.
HandlerStart(r, raw, build) ==
    /\ Polled(r)
    /\ serverPc = "serving"
    /\ pc[r] = "idle"
    /\ LET input == Deserialize(raw)
           cred == ResolveApiKey(input.api_key, API_KEY)
           request_messages == BuildMessages(input.contents)
       IN /\ body' = [body EXCEPT ![r] = Some(raw)]
          /\ cellRead' = [cellRead EXCEPT
                            ![r] = IF cred.consulted THEN Some(API_KEY) ELSE None]
          /\ IF cred.key = None
             THEN /\ envelope' = [envelope EXCEPT
                                    ![r] = Some(ErrorEnvelope("api_key is empty"))]
                  /\ pc' = [pc EXCEPT ![r] = "done"]
                  /\ UNCHANGED <<built, sent, calls>>
             ELSE /\ built' = [built EXCEPT ![r] = Some(build)]
                  /\ IF build.tag = "Err"
                     THEN /\ envelope' = [envelope EXCEPT
                                    ![r] = Some(ErrorEnvelope(Display(build.err)))]
                          /\ pc' = [pc EXCEPT ![r] = "done"]
                          /\ UNCHANGED <<sent, calls>>
                     ELSE /\ sent' = [sent EXCEPT
                                    ![r] = Some(UpstreamCall(cred.key[1],
                                                             input.max_tokens,
                                                             request_messages))]
                          /\ calls' = [calls EXCEPT ![r] = @ + 1]
                          /\ pc' = [pc EXCEPT ![r] = "awaiting"]
                          /\ UNCHANGED envelope
    /\ UNCHANGED <<procVars, resp>>

\* Mutant: a failed upstream call is issued again.
HandlerResume_Retry(r, result) ==
    /\ Polled(r)
    /\ pc[r] = "awaiting"
    /\ IF result.tag = "Err" /\ calls[r] < 2
       THEN /\ calls' = [calls EXCEPT ![r] = @ + 1]
            /\ UNCHANGED <<resp, envelope, pc>>
       ELSE /\ resp' = [resp EXCEPT ![r] = Some(result)]
            /\ envelope' = [envelope EXCEPT ![r] = Some(TranslateResponse(result))]
            /\ pc' = [pc EXCEPT ![r] = "done"]
            /\ UNCHANGED calls
    /\ UNCHANGED <<procVars, body, cellRead, built, sent>>

\* openai_handler from the upstream call's return to its own return.
HandlerResume(r, result) ==
    /\ Polled(r)
    /\ pc[r] = "awaiting"
    /\ resp' = [resp EXCEPT ![r] = Some(result)]
    /\ envelope' = [envelope EXCEPT ![r] = Some(TranslateResponse(result))]
    /\ pc' = [pc EXCEPT ![r] = "done"]
    /\ UNCHANGED <<procVars, body, cellRead, built, sent, calls>>

(* --------------------------- specifications ---------------------------- *)
CtrlC == \E outcome \in {"Ok", "Err"} : MainCtrlC(outcome)
Bind == \E bound \in BOOLEAN : ServerBind(bound)
HandleReq(r) ==
    /\ pc[r] = "idle"
    /\ \E raw \in SampleBodies, build \in BuildOutcomes : HandlerStart(r, raw, build)
ResumeReq(r) ==
    /\ pc[r] = "awaiting"
    /\ \E result \in SampleResults : HandlerResume(r, result)
Handle == \E r \in Reqs : HandleReq(r)
Resume == \E r \in Reqs : ResumeReq(r)

Next ==
    \/ MainInitKey
    \/ MainSpawn
    \/ CtrlC
    \/ Bind
    \/ ServerServeError
    \/ Handle
    \/ Resume

Spec == Init /\ [][Next]_vars

\* The program's own steps are taken when they can be; the interrupt signal,
\* incoming requests and upstream responses are the environment's.
FairSpec ==
    Spec /\ WF_vars(MainInitKey) /\ WF_vars(MainSpawn) /\ WF_vars(Bind)

\* One request through the handler, over every body and every upstream result,
\* from the state in which the listener serves.
InitHandler ==
    /\ argsKey \in {None} \cup {Some(k) : k \in CliKeys}
    /\ mainPc = "wait_signal"
    /\ shutdown = ""
    /\ API_KEY = argsKey
    /\ serverPc = "serving"
    /\ IdleRequests

HandleOne ==
    /\ pc[1] = "idle"
    /\ \E raw \in AllBodies, build \in BuildOutcomes : HandlerStart(1, raw, build)
ResumeOne ==
    /\ pc[1] = "awaiting"
    /\ \E result \in AllResults : HandlerResume(1, result)

NextHandler == HandleOne \/ ResumeOne

SpecHandler == InitHandler /\ [][NextHandler]_vars

(* ------------------------------ claims --------------------------------- *)
\* What a request's body says about its key.
KeyPresent(r) == body[r][1].api_key /= None /\ body[r][1].api_key /= Some("")
Returned(r, message, code) ==
    pc[r] = "done" /\ envelope[r] = Some([message |-> message, code |-> code])

\* C1: a handled request whose api_key is omitted or empty, with the cell
\* unset, has returned {"api_key is empty", 500} and issued no upstream call,
\* whatever the other requests are doing.
C1_EmptyKeyUnsetCell ==
    \A r \in Reqs :
        (body[r] /= None /\ ~KeyPresent(r) /\ API_KEY = None)
            => /\ Returned(r, "api_key is empty", 500)
               /\ calls[r] = 0
               /\ sent[r] = None

C1_Witness ==
    \E r, q \in Reqs :
        /\ body[r] /= None /\ body[r][1].api_key = None /\ API_KEY = None
        /\ pc[r] = "done"
        /\ q /= r /\ pc[q] = "awaiting"

\* C2: an upstream call carries the request's key when the request has one,
\* and then the cell was not read; it carries the cell's value only when the
\* request has none.
C2_OneCredentialSource ==
    \A r \in Reqs :
        sent[r] /= None =>
            IF KeyPresent(r)
            THEN /\ sent[r][1].api_key = body[r][1].api_key[1]
                 /\ cellRead[r] = None
            ELSE /\ cellRead[r] /= None
                 /\ API_KEY /= None
                 /\ sent[r][1].api_key = API_KEY[1]

C2_Witness ==
    \E r, q \in Reqs :
        /\ sent[r] /= None /\ KeyPresent(r) /\ API_KEY = Some("sk-cli")
        /\ sent[r][1].api_key = "sk-req"
        /\ sent[q] /= None /\ ~KeyPresent(q) /\ sent[q][1].api_key = "sk-cli"

\* C3: a request with a non-empty contents list, a resolvable credential and
\* a request object that builds has issued exactly one upstream call, and once
\* the call has returned a first choice with text, the handler has returned
\* {that text, 200}.
C3_OneCallFirstChoice ==
    \A r \in Reqs :
        (/\ body[r] /= None
         /\ body[r][1].contents /= <<>>
         /\ (KeyPresent(r) \/ API_KEY /= None)
         /\ built[r] /= None /\ built[r][1].tag = "Ok")
            => /\ calls[r] = 1
               /\ (resp[r] /= None /\ resp[r][1].tag = "Ok"
                   /\ resp[r][1].val /= <<>> /\ resp[r][1].val[1] /= None)
                      => Returned(r, resp[r][1].val[1][1], 200)

C3_Witness ==
    \E r \in Reqs :
        /\ resp[r] = Some(Ok(<<Some("hi there"), Some("other")>>))
        /\ body[r][1].contents /= <<>>
        /\ calls[r] = 1
        /\ Returned(r, "hi there", 200)

\* C4: an upstream result without choices is returned as {"no choices", 500},
\* one whose first choice has no content as {"no content", 500}.
C4_NoUsableText ==
    \A r \in Reqs :
        (resp[r] /= None /\ resp[r][1].tag = "Ok")
            => /\ resp[r][1].val = <<>> => Returned(r, "no choices", 500)
               /\ (resp[r][1].val /= <<>> /\ resp[r][1].val[1] = None)
                      => Returned(r, "no content", 500)

C4_Witness ==
    \E r \in Reqs :
        /\ resp[r] = Some(Ok(<<None, Some("other")>>))
        /\ Returned(r, "no content", 500)

\* What one step may do to request r.
C5_Step(r) ==
    /\ calls'[r] <= 1
    /\ (pc[r] /= "done" /\ pc'[r] = "done" /\ built'[r] /= None /\ built'[r][1].tag = "Err")
          => /\ envelope'[r] = Some([message |-> Display(built'[r][1].err), code |-> 500])
             /\ calls'[r] = 0
             /\ procVars' = procVars
             /\ \A q \in Reqs \ {r} : pc'[q] = pc[q] /\ envelope'[q] = envelope[q]
    /\ (pc[r] /= "done" /\ pc'[r] = "done" /\ resp'[r] /= None /\ resp'[r][1].tag = "Err")
          => /\ envelope'[r] = Some([message |-> Display(resp'[r][1].err), code |-> 500])
             /\ calls'[r] = 1
             /\ procVars' = procVars
             /\ \A q \in Reqs \ {r} : pc'[q] = pc[q] /\ envelope'[q] = envelope[q]
    /\ pc[r] = "done"
          => pc'[r] = "done" /\ calls'[r] = calls[r] /\ envelope'[r] = envelope[r]

\* C5: no request ever has more than one upstream call; the step in which a
\* request fails (its request object does not build, or its upstream call
\* fails) returns {the error's text, 500}, and changes neither main, nor the
\* listener, nor any other request; a request that has returned stays as it is.
C5_ErrorsAreTerminal == [][\A r \in Reqs : C5_Step(r)]_vars

C5_Witness ==
    \E r, q \in Reqs :
        /\ Returned(r, "http error: connection refused", 500)
        /\ built[q] = Some(Err("InvalidArgument"))
        /\ Returned(q, "invalid args: max_tokens", 500)
        /\ Running /\ serverPc = "serving"

\* What one step may do to the cell and to the reads recorded of it.
C6_Step ==
    /\ API_KEY' /= API_KEY
          => /\ mainPc = "init_key" /\ serverPc = "not_spawned"
             /\ API_KEY = None /\ API_KEY' = argsKey
    /\ serverPc' /= "not_spawned" => API_KEY' = argsKey
    /\ \A r \in Reqs : cellRead'[r] /= None => cellRead'[r] = Some(argsKey)

\* C6: the cell changes only in main's initialisation step, from unset to the
\* startup argument, before the listener is spawned; once the listener is
\* spawned the cell holds the startup argument, and that is what every read
\* by a request returned.
C6_CellWrittenOnceBeforeSpawn == [][C6_Step]_vars

C6_Witness ==
    \E r, q \in Reqs :
        /\ r /= q
        /\ cellRead[r] = Some(Some("sk-cli"))
        /\ cellRead[q] = Some(Some("sk-cli"))
        /\ pc[r] = "done" /\ pc[q] = "awaiting"

\* C7: a failure to bind the port at startup is fatal to the process: once the
\* listener has failed to bind, the process terminates, with or without an
\* interrupt signal.
C7_BindFailureTerminates == (serverPc = "bind_panicked") ~> (mainPc = "exited")

\* What one step may do to main, the listener and the requests around a
\* listener panic or the exit of main.
C8_Step ==
    /\ (serverPc' \in {"bind_panicked", "serve_panicked"} /\ serverPc' /= serverPc)
          => mainPc' = mainPc /\ shutdown' = shutdown
    /\ serverPc \in {"bind_panicked", "serve_panicked"}
          => /\ serverPc' = serverPc
             /\ \A r \in Reqs : pc[r] = "idle" => pc'[r] = "idle"
    /\ serverPc = "bind_panicked" => \A r \in Reqs : pc[r] = "idle"
    /\ (mainPc' = "exited" /\ mainPc /= "exited")
          => /\ mainPc = "wait_signal"
             /\ shutdown = "" /\ shutdown' \in {"Ok", "Err"}
             /\ reqVars' = reqVars
    /\ mainPc = "exited" => vars' = vars

\* C8: a panic of the listener task leaves main as it was; after it no request
\* is started; main exits only from its wait for the signal, when that wait
\* returns, and that step leaves every request as it is; nothing runs after
\* the exit, so a request then awaiting its upstream call stays without an
\* envelope.
C8_ListenerFailureAndShutdown == [][C8_Step]_vars

C8_Witness ==
    /\ serverPc = "serve_panicked"
    /\ mainPc = "exited" /\ shutdown = "Ok"
    /\ \E r \in Reqs : pc[r] = "awaiting" /\ envelope[r] = None

\* The role a role string is to be sent as.
C9_RoleOf(role, mapped) ==
    /\ role = "user" => mapped = "Role::User"
    /\ role = "assistant" => mapped = "Role::Assistant"
    /\ role = "system" => mapped = "Role::System"
    /\ role \notin {"user", "assistant", "system"} => mapped = "Role::User"

\* C9: the messages of an upstream call are the request's contents, one for
\* one and in order, each text unchanged; "user", "assistant" and "system"
\* become the role of that name and every other role string becomes user; a
\* request with a credential whose request object builds has its call issued
\* whatever its roles are.
C9_TranslationIsOrderPreservingMap ==
    \A r \in Reqs :
        /\ (body[r] /= None /\ (KeyPresent(r) \/ API_KEY /= None)
            /\ built[r] /= None /\ built[r][1].tag = "Ok")
              => sent[r] /= None
        /\ sent[r] /= None
              => LET contents == body[r][1].contents
                     messages == sent[r][1].messages
                 IN /\ Len(messages) = Len(contents)
                    /\ \A i \in 1..Len(contents) :
                          /\ messages[i].content = contents[i].content
                          /\ C9_RoleOf(contents[i].role, messages[i].role)

C9_Witness ==
    \E r \in Reqs :
        /\ body[r] /= None
        /\ body[r][1].contents = <<[role |-> "Assistant", content |-> "hi"],
                                   [role |-> "system", content |-> "hello"]>>
        /\ sent[r] /= None
        /\ sent[r][1].messages = <<[role |-> "Role::User", content |-> "hi"],
                                   [role |-> "Role::System", content |-> "hello"]>>
        /\ \E t \in ReplyTexts : Returned(r, t, 200)

====
